---- MODULE Spec2Model ----
(***************************************************************************)
(* Model of hops/homps/tensormethod_parameters.py (integration-mode enum,  *)
(* generate_parameters dispatch, positivity_test, the three parameter      *)
(* records, the HIParamsWTensors dataclass) and of hops/homps/operators.py *)
(* (creation_annihilation_operator).                                       *)
(*                                                                         *)
(* Python values are modelled with their runtime type: a value is a record *)
(* [ty, cls, num].  Floats carry a class (finite, nan, inf) because the    *)
(* comparison `value <= 0` is false for NaN.  Exceptions are results whose *)
(* kind is the exception class; messages are sequences of string pieces.   *)
(***************************************************************************)
EXTENDS Integers, Sequences, FiniteSets, TLC

VARIABLES call, result, obj

vars == <<call, result, obj>>

\* ---------------------------------------------------------------- bounds
MaxInt == 2     \* numeric inputs range over -1 .. MaxInt
MaxKw  == 3     \* at most this many keyword arguments in one call
MaxDim == 3     \* operator dimensions range over -1 .. MaxDim

\* ---------------------------------------------------------------- values
IntVal(n)   == [ty |-> "int",   cls |-> "finite", num |-> n]
FloatVal(n) == [ty |-> "float", cls |-> "finite", num |-> n]
NaN         == [ty |-> "float", cls |-> "nan",    num |-> 0]
PosInf      == [ty |-> "float", cls |-> "inf",    num |-> 0]
StrVal      == [ty |-> "str",   cls |-> "text",   num |-> 0]

Values == {IntVal(n) : n \in -1..MaxInt} \cup {FloatVal(n) : n \in -1..MaxInt}
            \cup {NaN, PosInf, StrVal}

\* isinstance(value, hint) as beartype checks the annotations `int`, `float`.
IsInstance(v, hint) == v.ty = hint

None == [cls |-> "None"]

Ok(v)          == [kind |-> "ok", val |-> v, stored |-> {}]
Raise(k, m, s) == [kind |-> k, val |-> m, stored |-> s]

\* Python `value <= 0`: on an int or float the boolean (False for NaN and
\* for +inf); on a str the comparison itself raises TypeError.
LeZero(v) ==
  IF v.ty \in {"int", "float"}
  THEN Ok(v.cls = "finite" /\ v.num <= 0)
  ELSE Raise("TypeError", <<"'<=' not supported between instances of '",
                            v.ty, "' and 'int'">>, {})

\* ---------------------------------------------------- MPSIntegrationMode
MPSIntegrationMode == [TDVP1SITE |-> "TDVP1", TDVP2SITE |-> "TDVP2",
                       TEBD |-> "TEBD", RUNGEKUTTA |-> "RK"]

Member(n) == [kind |-> "MPSIntegrationMode", name |-> n,
              value |-> MPSIntegrationMode[n]]
RawStr(s) == [kind |-> "str", name |-> s, value |-> s]
NoneMode  == [kind |-> "NoneType", name |-> "None", value |-> "None"]

Modes == {Member(n) : n \in DOMAIN MPSIntegrationMode}
           \cup {RawStr(MPSIntegrationMode[n]) : n \in DOMAIN MPSIntegrationMode}
           \cup {NoneMode}

\* A mode compared by its value string only (what a str-valued enum would do).
ModeEqByValue(a, b) == a.value = b.value

\* `mode == MPSIntegrationMode.X`: Enum members compare by identity.
ModeEq(a, b) == a.kind = b.kind /\ a.name = b.name

\* str(mode) as interpolated in the f-string of the ValueError.
ModeStr(m) == IF m.kind = "MPSIntegrationMode"
              THEN <<"MPSIntegrationMode.", m.name>>
              ELSE <<m.name>>

\* ------------------------------------------------------ parameter records
Classes == {"TDVP1SiteParameters", "TDVP2SiteParameters", "TEBDParameters"}

P(n, h) == [name |-> n, hint |-> h]

\* The __init__ signatures: parameter names and annotations in order.
Params(c) ==
  CASE c = "TDVP1SiteParameters" ->
         <<P("numiter_lanczos", "int"), P("max_bond_dimension", "int")>>
    [] c = "TDVP2SiteParameters" ->
         <<P("numiter_lanczos", "int"), P("max_bond_dimension", "int"),
           P("relative_svd_tolerance", "float")>>
    [] c = "TEBDParameters" ->
         <<P("max_bond_dimension", "int"), P("svd_relative_tolerance", "float")>>

\* __slots__ of each record class.
Slots(c) ==
  CASE c = "TDVP1SiteParameters" -> {"numiter_lanczos", "max_bond_dimension"}
    [] c = "TDVP2SiteParameters" ->
         {"numiter_lanczos", "max_bond_dimension", "relative_svd_tolerance"}
    [] c = "TEBDParameters" -> {"max_bond_dimension", "svd_relative_tolerance"}

ParamNames(c) == {Params(c)[i].name : i \in 1..Len(Params(c))}

\* positivity_test(value, custom_name): None, or the ValueError raised.
positivity_test(value, custom_name) ==
  LET cmp == LeZero(value) IN
  IF cmp.kind # "ok"
  THEN cmp
  ELSE IF cmp.val
  THEN Raise("ValueError", <<custom_name, " must be positive!">>, {})
  ELSE Ok(None)

Test(f, n) == [op |-> "test", field |-> f, name |-> n]
Store(f)   == [op |-> "store", field |-> f, name |-> ""]

\* A constructor that validates and stores one field at a time.
InitBodyInterleaved(c) ==
  CASE c = "TDVP1SiteParameters" ->
         <<Test("numiter_lanczos", "number of Lanczos iterations"),
           Store("numiter_lanczos"),
           Test("max_bond_dimension", "maximum bond dimension"),
           Store("max_bond_dimension")>>
    [] c = "TDVP2SiteParameters" ->
         <<Test("numiter_lanczos", "number of Lanczos iterations"),
           Store("numiter_lanczos"),
           Test("max_bond_dimension", "maximum bond dimension"),
           Store("max_bond_dimension"),
           Test("relative_svd_tolerance", "relative SVD tolerance"),
           Store("relative_svd_tolerance")>>
    [] c = "TEBDParameters" ->
         <<Test("max_bond_dimension", "maximum bond dimension"),
           Store("max_bond_dimension"),
           Test("svd_relative_tolerance", "SVD relative tolerance"),
           Store("svd_relative_tolerance")>>

\* The statements of each __init__ body, in program order.
InitBody(c) ==
  CASE c = "TDVP1SiteParameters" ->
         <<Test("numiter_lanczos", "number of Lanczos iterations"),
           Test("max_bond_dimension", "maximum bond dimension"),
           Store("numiter_lanczos"),
           Store("max_bond_dimension")>>
    [] c = "TDVP2SiteParameters" ->
         <<Test("numiter_lanczos", "number of Lanczos iterations"),
           Test("max_bond_dimension", "maximum bond dimension"),
           Test("relative_svd_tolerance", "relative SVD tolerance"),
           Store("numiter_lanczos"),
           Store("max_bond_dimension"),
           Store("relative_svd_tolerance")>>
    [] c = "TEBDParameters" ->
         <<Test("max_bond_dimension", "maximum bond dimension"),
           Test("svd_relative_tolerance", "SVD relative tolerance"),
           Store("max_bond_dimension"),
           Store("svd_relative_tolerance")>>

\* Runs statements i.. of a body on the bound arguments; `stored` are the
\* slots assigned so far.
RECURSIVE ExecBody(_, _, _, _, _)
ExecBody(c, body, i, args, stored) ==
  IF i > Len(body)
  THEN Ok([cls |-> c, fields |-> [f \in stored |-> args[f]]])
  ELSE LET s == body[i] IN
       IF s.op = "test"
       THEN LET r == positivity_test(args[s.field], s.name) IN
            IF r.kind = "ok"
            THEN ExecBody(c, body, i + 1, args, stored)
            ELSE Raise(r.kind, r.val, stored)
       ELSE ExecBody(c, body, i + 1, args, stored \cup {s.field})

\* The beartype wrapper: every declared parameter that was passed is checked
\* against its annotation, in signature order; 0 when all pass, else the
\* index of the first violating parameter.
RECURSIVE BeartypeCheck(_, _, _)
BeartypeCheck(c, kwargs, i) ==
  IF i > Len(Params(c)) THEN 0
  ELSE LET p == Params(c)[i] IN
       IF p.name \in DOMAIN kwargs /\ ~IsInstance(kwargs[p.name], p.hint)
       THEN i
       ELSE BeartypeCheck(c, kwargs, i + 1)

\* Argument binding that tolerates unexpected keywords.
BindsLax(c, kwargs) == ParamNames(c) \subseteq DOMAIN kwargs

\* Python's binding of **kwargs to the keyword parameters of __init__:
\* every parameter is required and no other keyword is accepted.
Binds(c, kwargs) == DOMAIN kwargs = ParamNames(c)

\* cls(**kwargs) for one of the three record classes.
Construct(c, kwargs) ==
  LET bad == BeartypeCheck(c, kwargs, 1) IN
  IF bad # 0
  THEN Raise("BeartypeCallHintParamViolation", <<Params(c)[bad].name>>, {})
  ELSE IF ~Binds(c, kwargs)
  THEN Raise("TypeError", <<c, ".__init__()">>, {})
  ELSE ExecBody(c, InitBody(c), 1, kwargs, {})

\* A dispatch with the TDVP2SITE and TEBD branches exchanged.
generate_parameters_swapped(mode, kwargs) ==
  IF ModeEq(mode, Member("TDVP1SITE"))
  THEN Construct("TDVP1SiteParameters", kwargs)
  ELSE IF ModeEq(mode, Member("TDVP2SITE"))
  THEN Construct("TEBDParameters", kwargs)
  ELSE IF ModeEq(mode, Member("TEBD"))
  THEN Construct("TDVP2SiteParameters", kwargs)
  ELSE IF ModeEq(mode, Member("RUNGEKUTTA"))
  THEN Raise("NotImplementedError",
             <<"Runge-Kutta integration is not yet implemented.">>, {})
  ELSE Raise("ValueError", <<"Invalid mode ">> \o ModeStr(mode) \o <<".">>, {})

\* A dispatch without the RUNGEKUTTA branch.
generate_parameters_no_rk(mode, kwargs) ==
  IF ModeEq(mode, Member("TDVP1SITE"))
  THEN Construct("TDVP1SiteParameters", kwargs)
  ELSE IF ModeEq(mode, Member("TDVP2SITE"))
  THEN Construct("TDVP2SiteParameters", kwargs)
  ELSE IF ModeEq(mode, Member("TEBD"))
  THEN Construct("TEBDParameters", kwargs)
  ELSE Raise("ValueError", <<"Invalid mode ">> \o ModeStr(mode) \o <<".">>, {})

\* generate_parameters(mode, **kwargs)
generate_parameters(mode, kwargs) ==
  IF ModeEq(mode, Member("TDVP1SITE"))
  THEN Construct("TDVP1SiteParameters", kwargs)
  ELSE IF ModeEq(mode, Member("TDVP2SITE"))
  THEN Construct("TDVP2SiteParameters", kwargs)
  ELSE IF ModeEq(mode, Member("TEBD"))
  THEN Construct("TEBDParameters", kwargs)
  ELSE IF ModeEq(mode, Member("RUNGEKUTTA"))
  THEN Raise("NotImplementedError",
             <<"Runge-Kutta integration is not yet implemented.">>, {})
  ELSE Raise("ValueError", <<"Invalid mode ">> \o ModeStr(mode) \o <<".">>, {})

\* ------------------------------------------------- attribute assignment
\* The record after `o.f = v`.  A declared slot takes the value as it is:
\* the classes define no __setattr__ and nothing re-validates, and it is the
\* same plain attribute assignment that __init__ itself performs on the
\* instance (`self.max_bond_dimension = max_bond_dimension`).  Any other
\* name leaves the declared slots as they were.
SetAttrObj(o, f, v) ==
  IF f \in Slots(o.cls)
  THEN [o EXCEPT !.fields[f] = v]
  ELSE o

\* The outcome of `o.f = v`: None, or AttributeError for a name outside
\* __slots__.  That the instance has no __dict__ rests on the base class
\* bf.ABCParameter declaring __slots__ as well; the records are sealed.
SetAttrResult(o, f, v) ==
  IF f \in Slots(o.cls)
  THEN Ok(None)
  ELSE Raise("AttributeError", <<o.cls, f>>, {})

\* ------------------------------------------------------ equality and hash
\* bf.ABCParameter.__eq__: records are equal when class and slot values
\* agree (value semantics of the parameter base class).
RecordEq(a, b) == a.cls = b.cls /\ a.fields = b.fields

\* bf.ABCParameter.__hash__: derived from class and slot values.
RecordHash(a) == Ok(<<a.cls, a.fields>>)

\* Payloads of the base container HIParams, opaque here.
BasePayloads == {"base_a", "base_b"}

\* The dataclass fields HIParamsWTensors inherits from HIParams: the base
\* payload, taken as one opaque field.
HIParamsFields == <<"base">>

\* The fields @dataclass collects: those of the base class, then the
\* class's own annotation TensP.
DataclassFields == HIParamsFields \o <<"TensP">>

\* HIParamsWTensors(**kw): the generated __init__ takes one argument per
\* dataclass field and stores it.
HIParamsWTensors(kw) ==
  [cls |-> "HIParamsWTensors",
   fields |-> [f \in {DataclassFields[i] : i \in 1..Len(DataclassFields)} |-> kw[f]]]

\* The __eq__ that @dataclass generates: same class and equal field tuples;
\* TensP is compared with the record's own __eq__.
DataclassEq(x, y) ==
  /\ x.cls = y.cls
  /\ \A i \in 1..Len(DataclassFields) :
       LET f == DataclassFields[i] IN
       IF f = "TensP"
       THEN RecordEq(x.fields[f], y.fields[f])
       ELSE x.fields[f] = y.fields[f]

\* hash(x): @dataclass with eq=True and frozen=False sets __hash__ to None,
\* so hashing an instance raises TypeError.
DataclassHash(x) == Raise("TypeError", <<"unhashable type: '", x.cls, "'">>, {})

\* ------------------------------------------------------------- operators
\* The tokens of the `def creation_annihilation_operator` header line.
DefHeader == <<"def", "creation_annihilation_operator", "(", "dimension", ":",
               "int", ")", "->", "Tuple", "[", "np.ndarray", ",", "np.ndarray",
               "]">>

\* Python's grammar requires a def header to end with ':' before the block;
\* a module with an unterminated header raises SyntaxError when imported.
HeaderTerminated(h) == h[Len(h)] = ":"

\* np.sqrt(n), in thousandths, rounded down.
NpSqrt(n) == CHOOSE k \in 0..(1000 * n) :
               k * k <= 1000000 * n /\ (k + 1) * (k + 1) > 1000000 * n

\* np.zeros((d, d)) for d >= 0, indexed from 0.
NpZeros(d) == [i \in 0..(d - 1) |-> [j \in 0..(d - 1) |-> 0]]

\* The loop `for i in range(dimension - 1)` from index i on.
RECURSIVE FillLoop(_, _, _, _)
FillLoop(i, d, creation, annihilation) ==
  IF i >= d - 1
  THEN <<creation, annihilation>>
  ELSE FillLoop(i + 1, d,
                [creation EXCEPT ![i][i + 1] = NpSqrt(i + 1)],
                [annihilation EXCEPT ![i + 1][i] = NpSqrt(i + 1)])

\* The body of creation_annihilation_operator(dimension); np.zeros rejects a
\* negative dimension with ValueError.
creation_annihilation_body(d) ==
  IF d < 0
  THEN Raise("ValueError", <<"negative dimensions are not allowed">>, {})
  ELSE Ok(FillLoop(0, d, NpZeros(d), NpZeros(d)))

\* A call of creation_annihilation_operator(dimension) through an import of
\* hops.homps.operators.
creation_annihilation_operator(d) ==
  IF HeaderTerminated(DefHeader)
  THEN creation_annihilation_body(d)
  ELSE Raise("SyntaxError", <<"expected ':'">>, {})

\* ------------------------------------------------------------ call inputs
\* Keyword names a caller may pass: the declared ones and one undeclared.
Names == {"numiter_lanczos", "max_bond_dimension", "relative_svd_tolerance",
          "svd_relative_tolerance", "lanczos_iterations"}

KwargSets == UNION {[S -> Values] :
                      S \in {T \in SUBSET Names : Cardinality(T) <= MaxKw}}

\* Well-typed keyword sets whose values all pass positivity_test, per class.
GoodKwargs(c) ==
  {kw \in [ParamNames(c) -> {v \in Values : positivity_test(v, "").kind = "ok"}] :
     BeartypeCheck(c, kw, 1) = 0}

\* The records the constructors return on those keyword sets.
RecordsBuilt ==
  UNION {{Construct(c, kw).val : kw \in GoodKwargs(c)} : c \in Classes}

Dimensions == -1..MaxDim

\* ---------------------------------------------------------------- actions
Init ==
  /\ call = [op |-> "none", args |-> <<>>]
  /\ result = Ok(None)
  /\ obj = None

\* r = generate_parameters(mode, **kwargs), the factory call that opens a
\* session; obj is the record that came into existence, None when the call
\* raised.  The function reads no state, so it is explored from the fresh
\* state only.
GenerateParameters ==
  /\ call.op = "none"
  /\ \E mode \in Modes, kwargs \in KwargSets :
       LET r == generate_parameters(mode, kwargs) IN
       /\ call' = [op |-> "generate_parameters", args |-> <<mode, kwargs>>]
       /\ result' = r
       /\ obj' = IF r.kind = "ok" THEN r.val ELSE None

\* o.f = v on the record held by the caller.
SetAttr ==
  /\ obj # None
  /\ \E f \in Names, v \in Values :
       /\ call' = [op |-> "setattr", args |-> <<f, v>>]
       /\ result' = SetAttrResult(obj, f, v)
       /\ obj' = SetAttrObj(obj, f, v)

\* a == b, hash(a), hash(b) for two records built by the constructors.
CompareRecords ==
  /\ call.op = "none"
  /\ \E a \in RecordsBuilt, b \in RecordsBuilt :
       /\ call' = [op |-> "compare", args |-> <<a, b>>]
       /\ result' = Ok([eq |-> RecordEq(a, b), ha |-> RecordHash(a),
                        hb |-> RecordHash(b)])
       /\ obj' = None

\* x == y, hash(x), hash(y) for two HIParamsWTensors built on records.
CompareComposites ==
  /\ call.op = "none"
  /\ \E a \in RecordsBuilt, b \in RecordsBuilt :
     \E p \in BasePayloads, q \in BasePayloads :
       LET x == HIParamsWTensors([base |-> p, TensP |-> a])
           y == HIParamsWTensors([base |-> q, TensP |-> b]) IN
       /\ call' = [op |-> "compare", args |-> <<x, y>>]
       /\ result' = Ok([eq |-> DataclassEq(x, y), ha |-> DataclassHash(x),
                        hb |-> DataclassHash(y)])
       /\ obj' = None

\* creation_annihilation_operator(d)
CreationAnnihilation ==
  /\ call.op = "none"
  /\ \E d \in Dimensions :
       /\ call' = [op |-> "creation_annihilation_operator", args |-> <<d>>]
       /\ result' = creation_annihilation_operator(d)
       /\ obj' = None

\* The caller drops every reference: records are discarded when no longer
\* referenced, and the next session starts fresh.
Discard ==
  /\ call.op # "none"
  /\ call' = [op |-> "none", args |-> <<>>]
  /\ result' = Ok(None)
  /\ obj' = None

Next ==
  \/ GenerateParameters
  \/ SetAttr
  \/ CompareRecords
  \/ CompareComposites
  \/ CreationAnnihilation
  \/ Discard

Spec == Init /\ [][Next]_vars

\* ------------------------------------------------------------ properties
\* A number that is <= 0, and a number that is strictly positive (NaN is
\* neither).
NonPositive(v) == v.ty \in {"int", "float"} /\ v.cls = "finite" /\ v.num <= 0
GtZero(v) == v.ty \in {"int", "float"}
               /\ ((v.cls = "finite" /\ v.num > 0) \/ v.cls = "inf")

IsGen   == call.op = "generate_parameters"
GenMode == call.args[1]
GenKw   == call.args[2]

RecordModes == {"TDVP1SITE", "TDVP2SITE", "TEBD"}

\* The record type each mode is documented to produce.
ExpectedClass(n) ==
  CASE n = "TDVP1SITE" -> "TDVP1SiteParameters"
    [] n = "TDVP2SITE" -> "TDVP2SiteParameters"
    [] n = "TEBD" -> "TEBDParameters"

\* Declared fields in declaration order, with type and display name.
D(f, t, n) == [field |-> f, type |-> t, display |-> n]
Declared(n) ==
  CASE n = "TDVP1SITE" ->
         <<D("numiter_lanczos", "int", "number of Lanczos iterations"),
           D("max_bond_dimension", "int", "maximum bond dimension")>>
    [] n = "TDVP2SITE" ->
         <<D("numiter_lanczos", "int", "number of Lanczos iterations"),
           D("max_bond_dimension", "int", "maximum bond dimension"),
           D("relative_svd_tolerance", "float", "relative SVD tolerance")>>
    [] n = "TEBD" ->
         <<D("max_bond_dimension", "int", "maximum bond dimension"),
           D("svd_relative_tolerance", "float", "SVD relative tolerance")>>

DeclaredNames(n) == {Declared(n)[i].field : i \in 1..Len(Declared(n))}

\* The keyword set is exactly the declared field set, each of declared type.
WellFormed(n, kw) ==
  /\ DOMAIN kw = DeclaredNames(n)
  /\ \A i \in 1..Len(Declared(n)) : kw[Declared(n)[i].field].ty = Declared(n)[i].type

\* C1: for a mode of {TDVP1SITE, TDVP2SITE, TEBD} and keyword fields that
\* are exactly the declared fields, each strictly positive and of declared
\* type, generate_parameters returns a record of the mode's own type whose
\* fields hold exactly the supplied values.
C1_ValidCallReturnsMatchingRecord ==
  \A n \in RecordModes :
    (/\ IsGen
     /\ GenMode = Member(n)
     /\ WellFormed(n, GenKw)
     /\ \A f \in DOMAIN GenKw : GtZero(GenKw[f]))
    => /\ result.kind = "ok"
       /\ result.val.cls = ExpectedClass(n)
       /\ result.val.fields = GenKw
       /\ obj = result.val

C1_Witness ==
  /\ IsGen
  /\ GenMode = Member("TEBD")
  /\ WellFormed("TEBD", GenKw)
  /\ \A f \in DOMAIN GenKw : GtZero(GenKw[f])
  /\ result.kind = "ok"
  /\ result.val.cls = "TEBDParameters"

\* C2: a numeric field <= 0 makes construction fail with a validation error
\* and no record comes into existence; consequently every record a
\* constructor returns has all its numeric fields strictly positive.
C2_ConstructionPositivity ==
  \A n \in RecordModes :
    (IsGen /\ GenMode = Member(n))
    => /\ (WellFormed(n, GenKw) /\ \E f \in DOMAIN GenKw : NonPositive(GenKw[f]))
            => (result.kind = "ValueError" /\ obj = None)
       /\ result.kind = "ok"
            => \A f \in DOMAIN result.val.fields : GtZero(result.val.fields[f])

\* C3: generate_parameters(RUNGEKUTTA, **fields) raises the not-implemented
\* error for every set of keyword fields and produces no record.
C3_RungeKuttaNotImplemented ==
  (IsGen /\ GenMode = Member("RUNGEKUTTA"))
  => /\ result.kind = "NotImplementedError"
     /\ obj = None

C3_Witness ==
  /\ IsGen
  /\ GenMode = Member("RUNGEKUTTA")
  /\ WellFormed("TDVP1SITE", GenKw)
  /\ \A f \in DOMAIN GenKw : GtZero(GenKw[f])
  /\ result.kind = "NotImplementedError"

\* C4: after construction the declared fields of a record are immutable: no
\* operation on the record, assignment to a declared field included,
\* changes the value of any field.
C4_FieldsImmutable ==
  [][call'.op = "setattr" => obj' = obj]_vars

\* C5: every exposed parameter type has value semantics usable as a cache
\* key: instances built from identical field values compare equal and have
\* equal hashes, instances differing in a field compare unequal; for the
\* composite this covers the base fields together with TensP.
C5_ValueSemantics ==
  call.op = "compare" =>
    LET a == call.args[1]
        b == call.args[2]
        r == result.val IN
    /\ a = b => (r.eq /\ r.ha.kind = "ok" /\ r.hb.kind = "ok"
                      /\ r.ha.val = r.hb.val)
    /\ a # b => ~r.eq

\* The first declared field whose supplied value is <= 0.
FirstInvalid(n, kw) ==
  LET bad == {i \in 1..Len(Declared(n)) : NonPositive(kw[Declared(n)[i].field])} IN
  Declared(n)[CHOOSE i \in bad : \A j \in bad : i <= j]

\* C6: when numeric fields are non-positive, the fields are checked in
\* declaration order, the error reported is '<display name> must be
\* positive!' for the first invalid field in that order, and every field is
\* checked before any field is stored on the object.
C6_FirstInvalidFieldReported ==
  \A n \in RecordModes :
    (/\ IsGen
     /\ GenMode = Member(n)
     /\ WellFormed(n, GenKw)
     /\ \E f \in DOMAIN GenKw : NonPositive(GenKw[f]))
    => /\ result.kind = "ValueError"
       /\ result.val = <<FirstInvalid(n, GenKw).display, " must be positive!">>
       /\ result.stored = {}
       /\ obj = None

C6_Witness ==
  /\ IsGen
  /\ GenMode = Member("TDVP2SITE")
  /\ WellFormed("TDVP2SITE", GenKw)
  /\ GtZero(GenKw["numiter_lanczos"])
  /\ NonPositive(GenKw["max_bond_dimension"])
  /\ NonPositive(GenKw["relative_svd_tolerance"])
  /\ result.val = <<"maximum bond dimension", " must be positive!">>

\* C7: a mode that is not a member of MPSIntegrationMode makes
\* generate_parameters raise the invalid-argument error whose message names
\* the offending value, whatever the keyword fields, and no record is built.
C7_NonMemberModeRejected ==
  (IsGen /\ GenMode.kind # "MPSIntegrationMode")
  => /\ result.kind = "ValueError"
     /\ result.val = <<"Invalid mode ", GenMode.name, ".">>
     /\ obj = None

C7_Witness ==
  /\ IsGen
  /\ GenMode = RawStr("TDVP1")
  /\ WellFormed("TDVP1SITE", GenKw)
  /\ \A f \in DOMAIN GenKw : GtZero(GenKw[f])
  /\ result.kind = "ValueError"

\* C8: for a mode of {TDVP1SITE, TDVP2SITE, TEBD}, keyword names that differ
\* from the record's declared field set (one missing, or an extra one) make
\* the call fail with a type/argument-mismatch error and return no record,
\* even when every supplied value is strictly positive.
C8_FieldSetMismatchRejected ==
  \A n \in RecordModes :
    (IsGen /\ GenMode = Member(n) /\ DOMAIN GenKw # DeclaredNames(n))
    => /\ result.kind \in {"TypeError", "BeartypeCallHintParamViolation"}
       /\ obj = None

C8_Witness ==
  /\ IsGen
  /\ GenMode = Member("TDVP1SITE")
  /\ DOMAIN GenKw = DeclaredNames("TDVP1SITE") \cup {"lanczos_iterations"}
  /\ \A f \in DOMAIN GenKw : GenKw[f] = IntVal(1)
  /\ result.kind = "TypeError"

\* The creation matrix the construction rule describes.
ExpectedCreation(d) ==
  [i \in 0..(d - 1) |->
     [j \in 0..(d - 1) |-> IF j = i + 1 THEN NpSqrt(i + 1) ELSE 0]]

Transpose(m, d) == [i \in 0..(d - 1) |-> [j \in 0..(d - 1) |-> m[j][i]]]

\* C9: for every dimension d >= 1, creation_annihilation_operator(d) returns
\* two d x d matrices that are exact transposes of each other, the creation
\* matrix holding sqrt(i+1) at (i, i+1) for i in [0, d-2] and zero elsewhere.
C9_CreationAnnihilationMatrices ==
  (call.op = "creation_annihilation_operator" /\ call.args[1] >= 1)
  => LET d == call.args[1] IN
     /\ result.kind = "ok"
     /\ result.val[1] = ExpectedCreation(d)
     /\ result.val[2] = Transpose(result.val[1], d)

\* C10: creation_annihilation_operator(dimension) rejects every dimension
\* <= 0 with an invalid-argument error and returns no matrices.
C10_NonPositiveDimensionRejected ==
  (call.op = "creation_annihilation_operator" /\ call.args[1] <= 0)
  => result.kind = "ValueError"
====
